---- MODULE Spec2Model ----
(***************************************************************************)
(* Multi-armed bandit simulator of dynamic_pricing_gui.py: the reward      *)
(* environment AdBandit, the three algorithms epsilon_greedy, ucb1 and     *)
(* thompson_sampling, and the regret accounting of                         *)
(* BanditApp.run_simulation.                                               *)
(*                                                                         *)
(* Numbers.  A probability is a numerator over Grid (ctrs[a] = n means     *)
(* n/Grid), and np.random.rand() returns u/Grid with u in 0..Grid-1, so    *)
(* that rand() is in [0,1).  Value estimates and regrets are exact         *)
(* rationals <<n, d>> in lowest terms with d > 0; the IEEE rounding of the *)
(* float64 arithmetic is not modelled.  Within six iterations no rounding *)
(* changes an argmax: two estimates that are equal as rationals are equal  *)
(* as float64 values, and unequal ones stay apart; from the seventh        *)
(* iteration on 1/3 can be reached as 0.3333333333333333 and as            *)
(* 0.33333333333333337.                                                    *)
(* Arms are indexed from 0 as in the code; the traces rewards and chosen   *)
(* are sequences, so that the entry written at loop index t is entry       *)
(* t + 1 of the sequence.                                                  *)
(***************************************************************************)
EXTENDS Integers, Sequences, FiniteSets, TLC

\* ---------------------------------------------------------------- bounds
MaxK == 2
MaxT == 3
Grid == 2
ThetaLevels == 2
SimT == 2
PairT == 2

VARIABLES
    env,      \* the AdBandit instance, [ads, ctrs, K]
    alg,      \* the algorithm function being executed: "eg", "ucb", "ts"
    T,        \* its horizon argument
    eps,      \* epsilon_greedy's eps argument, a rational <<n, d>>
    pc,       \* "entry", "loop", "returned", "raised", "shown", "pull", "pulled"
    t,        \* the loop variable: the number of completed iterations
    counts,   \* counts[a]
    values,   \* values[a], a rational
    alpha,    \* thompson_sampling's alpha[a]
    beta,     \* thompson_sampling's beta[a]
    rewards,  \* rewards, np.zeros(T) filled in one entry per iteration
    chosen,   \* chosen, likewise
    caller,   \* who called: "direct", "run_simulation" or "pair"
    eg_r,     \* run_simulation's eg_r
    ucb_r,    \* run_simulation's ucb_r
    results,  \* self.results
    twin,     \* a second run of the same algorithm on another environment
    probe     \* one direct call of AdBandit.pull: [arm, res]

vars == <<env, alg, T, eps, pc, t, counts, values, alpha, beta, rewards,
          chosen, caller, eg_r, ucb_r, results, twin, probe>>

None == <<>>

\* ------------------------------------------------------------- rationals
RECURSIVE Gcd(_, _)
Gcd(a, b) == IF b = 0 THEN a ELSE Gcd(b, a % b)

Abs(x) == IF x < 0 THEN -x ELSE x

\* n/d in lowest terms, d > 0
Norm(n, d) == LET g == Gcd(Abs(n), d) IN <<n \div g, d \div g>>

Rat(n) == <<n, 1>>

RAdd(x, y) == Norm(x[1] * y[2] + y[1] * x[2], x[2] * y[2])

RSub(x, y) == Norm(x[1] * y[2] - y[1] * x[2], x[2] * y[2])

\* x / c for an integer c > 0
RDiv(x, c) == Norm(x[1], x[2] * c)

RLess(x, y) == x[1] * y[2] < y[1] * x[2]

\* ----------------------------------------------------------- numpy bits
\* np.zeros(n), np.ones(n) over the arms 0..n-1
ZerosRat(n) == [a \in 0..n-1 |-> Rat(0)]

Zeros(n) == [a \in 0..n-1 |-> 0]

Ones(n) == [a \in 0..n-1 |-> 1]

\* np.zeros(T) for a trace
ZeroTrace(n) == [i \in 1..n |-> 0]

\* np.argmax: the first index holding the maximum
ArgMaxRat(f) ==
    CHOOSE i \in DOMAIN f :
        /\ \A j \in DOMAIN f : ~RLess(f[i], f[j])
        /\ \A j \in DOMAIN f : j < i => RLess(f[j], f[i])

ArgMaxInt(f) ==
    CHOOSE i \in DOMAIN f :
        /\ \A j \in DOMAIN f : f[j] <= f[i]
        /\ \A j \in DOMAIN f : j < i => f[j] < f[i]

\* np.max over a non-empty vector of integers
MaxOf(f) == f[ArgMaxInt(f)]

\* ----------------------------------------------------------- environment
\* lines 16-19: K is the number of labels, whatever the number of rates
AdBandit(ads, c) == [ads |-> ads, ctrs |-> c, K |-> Cardinality(DOMAIN ads)]

\* a list of n labels
Labels(n) == [a \in 0..n-1 |-> "ad"]

\* len(self.ctrs)
NumRates(e) == Cardinality(DOMAIN e.ctrs)

\* self.ctrs[arm]: numpy accepts an index in -len(ctrs)..len(ctrs)-1 and
\* raises IndexError outside it
ValidIndex(e, arm) == arm >= -NumRates(e) /\ arm < NumRates(e)

\* a negative index counts from the end
Wrap(e, arm) == IF arm < 0 THEN arm + NumRates(e) ELSE arm

expected_rewards(e) == e.ctrs

\* pull returning the click-through rate itself instead of a Bernoulli draw
pull_returns_rate(e, arm, u) ==
    IF ~ValidIndex(e, arm) THEN [ok |-> FALSE, r |-> 0]
    ELSE [ok |-> TRUE, r |-> e.ctrs[Wrap(e, arm)]]

\* pull(arm) with u the draw of np.random.rand(): [ok |-> FALSE] stands for
\* the IndexError, [ok |-> TRUE, r |-> reward] for a returned reward
pull(e, arm, u) ==
    IF ~ValidIndex(e, arm) THEN [ok |-> FALSE, r |-> 0]
    ELSE [ok |-> TRUE, r |-> IF u < e.ctrs[Wrap(e, arm)] THEN 1 ELSE 0]

\* the draws of np.random.rand()
Draws == 0..Grid-1

\* ------------------------------------------------------------ algorithms
DefaultEps == <<1, 10>>

\* np.random.rand() <= eps
ExploreInclusive(u, e) == u * e[2] <= e[1] * Grid

\* np.random.rand() < eps, with rand() = u/Grid
Explore(u, e) == u * e[2] < e[1] * Grid

\* exploiting the arm with the best true rate instead of the best estimate
EGSelectOracle(e, vals, epsilon, ue, j) ==
    IF Explore(ue, epsilon) THEN j ELSE ArgMaxInt(expected_rewards(e))

\* line 37: j is the draw of np.random.randint(K)
EGSelect(e, vals, epsilon, ue, j) ==
    IF Explore(ue, epsilon) THEN j ELSE ArgMaxRat(vals)

\* counts[arm] = 1 instead of counts[arm] += 1
CountUpdateAssign(cnt, arm) == [cnt EXCEPT ![arm] = 1]

\* lines 39, 55: counts[arm] += 1
CountUpdate(cnt, arm) == [cnt EXCEPT ![arm] = @ + 1]

\* values[arm] += (r - values[arm]) / (counts[arm] + 1)
MeanUpdateOffByOne(vals, cnt, arm, r) ==
    [vals EXCEPT ![arm] = RAdd(@, RDiv(RSub(Rat(r), @), cnt[arm] + 1))]

\* lines 40, 56: values[arm] += (r - values[arm]) / counts[arm], with the
\* count already incremented
MeanUpdate(vals, cnt, arm, r) ==
    [vals EXCEPT ![arm] = RAdd(@, RDiv(RSub(Rat(r), @), cnt[arm]))]

\* 10^8 * ln(n), n = 1..8
Ln8(n) == <<0, 69314718, 109861229, 138629436, 160943791, 179175947,
            194591015, 207944154>>[n]

RECURSIVE SqrtBetween(_, _, _)
SqrtBetween(n, lo, hi) ==
    IF lo = hi THEN lo
    ELSE LET mid == (lo + hi + 1) \div 2
         IN  IF mid * mid <= n THEN SqrtBetween(n, mid, hi)
             ELSE SqrtBetween(n, lo, mid - 1)

\* the integer part of the square root
ISqrt(n) == SqrtBetween(n, 0, 46340)

\* line 52: 10^4 * (values[a] + sqrt(2 ln(step + 1) / counts[a])), in integers
Ucb(vals, cnt, step) ==
    [a \in DOMAIN vals |->
        (10000 * vals[a][1]) \div vals[a][2]
        + ISqrt((2 * Ln8(step + 1)) \div cnt[a])]

\* line 53
UCBSelect(e, vals, cnt, step) == ArgMaxInt(Ucb(vals, cnt, step))

\* line 69: theta is the draw of np.random.beta(alpha, beta)
TSSelect(e, theta) == ArgMaxInt(theta)

\* the draws of np.random.beta over k arms: each in (0,1), on ThetaLevels
\* levels
Thetas(k) == [0..k-1 -> 1..ThetaLevels]

\* The local variables of one executing algorithm, with the environment it
\* was given.  ok = FALSE: an exception was raised.
Frame(e, c, v, al, be, rw, ch) ==
    [env |-> e, counts |-> c, values |-> v, alpha |-> al, beta |-> be,
     rewards |-> rw, chosen |-> ch, ok |-> TRUE]

\* lines 31-35, 46-50, 62-66: K = env.K and the allocations.  np.zeros(T)
\* raises ValueError for a negative T.
Allocate(e, a, horizon) ==
    IF horizon < 0
    THEN [Frame(e, None, None, None, None, None, None) EXCEPT !.ok = FALSE]
    ELSE Frame(e,
               IF a = "eg" THEN Zeros(e.K)
               ELSE IF a = "ucb" THEN Ones(e.K) ELSE None,
               IF a = "ts" THEN None ELSE ZerosRat(e.K),
               IF a = "ts" THEN Ones(e.K) ELSE None,
               IF a = "ts" THEN Ones(e.K) ELSE None,
               ZeroTrace(horizon),
               ZeroTrace(horizon))

\* lines 38-42, 54-58: the pull of the selected arm and the updates
PullAndUpdate(f, step, arm, u) ==
    LET res == pull(f.env, arm, u)
        cnt == CountUpdate(f.counts, arm)
    IN  IF ~res.ok THEN [f EXCEPT !.ok = FALSE]
        ELSE [f EXCEPT !.counts = cnt,
                       !.values = MeanUpdate(f.values, cnt, arm, res.r),
                       !.rewards = [@ EXCEPT ![step + 1] = res.r],
                       !.chosen = [@ EXCEPT ![step + 1] = arm]]

\* lines 37-42: one iteration of epsilon_greedy, K >= 1
EGBody(f, step, epsilon, ue, j, u) ==
    PullAndUpdate(f, step, EGSelect(f.env, f.values, epsilon, ue, j), u)

\* lines 52-58: one iteration of ucb1, K >= 1
UCBBody(f, step, u) ==
    PullAndUpdate(f, step, UCBSelect(f.env, f.values, f.counts, step), u)

\* lines 68-74: one iteration of thompson_sampling, K >= 1
TSBody(f, step, theta, u) ==
    LET arm == TSSelect(f.env, theta)
        res == pull(f.env, arm, u)
    IN  IF ~res.ok THEN [f EXCEPT !.ok = FALSE]
        ELSE [f EXCEPT !.rewards = [@ EXCEPT ![step + 1] = res.r],
                       !.chosen = [@ EXCEPT ![step + 1] = arm],
                       !.alpha = [@ EXCEPT ![arm] = @ + res.r],
                       !.beta = [@ EXCEPT ![arm] = @ + (1 - res.r)]]

\* the frame of the algorithm being executed
Self == Frame(env, counts, values, alpha, beta, rewards, chosen)

\* the executing algorithm's variables become those of frame g, or the
\* exception leaves the function
Becomes(g, step) ==
    IF ~g.ok
    THEN /\ pc' = "raised"
         /\ UNCHANGED <<t, counts, values, alpha, beta, rewards, chosen>>
    ELSE /\ pc' = "loop"
         /\ t' = step
         /\ counts' = g.counts /\ values' = g.values
         /\ alpha' = g.alpha /\ beta' = g.beta
         /\ rewards' = g.rewards /\ chosen' = g.chosen

\* with no arm, randint(0) and argmax of an empty array raise ValueError
NoArm == [Self EXCEPT !.ok = FALSE]

Enter ==
    /\ pc = "entry"
    /\ Becomes(Allocate(env, alg, T), 0)
    /\ UNCHANGED <<env, alg, T, eps, caller, eg_r, ucb_r, results, twin, probe>>

\* lines 36-42
epsilon_greedy_step ==
    /\ pc = "loop" /\ alg = "eg" /\ t < T
    /\ IF env.K = 0 THEN Becomes(NoArm, t)
       ELSE \E ue \in Draws, j \in 0..env.K-1, u \in Draws :
                Becomes(EGBody(Self, t, eps, ue, j, u), t + 1)
    /\ UNCHANGED <<env, alg, T, eps, caller, eg_r, ucb_r, results, twin, probe>>

\* lines 51-58
ucb1_step ==
    /\ pc = "loop" /\ alg = "ucb" /\ t < T
    /\ IF env.K = 0 THEN Becomes(NoArm, t)
       ELSE \E u \in Draws : Becomes(UCBBody(Self, t, u), t + 1)
    /\ UNCHANGED <<env, alg, T, eps, caller, eg_r, ucb_r, results, twin, probe>>

\* lines 67-74
thompson_sampling_step ==
    /\ pc = "loop" /\ alg = "ts" /\ t < T
    /\ IF env.K = 0 THEN Becomes(NoArm, t)
       ELSE \E theta \in Thetas(env.K), u \in Draws :
                Becomes(TSBody(Self, t, theta, u), t + 1)
    /\ UNCHANGED <<env, alg, T, eps, caller, eg_r, ucb_r, results, twin, probe>>

\* lines 43, 59, 75: range(T) is exhausted, return rewards, chosen
Return ==
    /\ pc = "loop" /\ t >= T
    /\ pc' = "returned"
    /\ UNCHANGED <<env, alg, T, eps, t, counts, values, alpha, beta, rewards,
                   chosen, caller, eg_r, ucb_r, results, twin, probe>>

\* ---------------------------------------------------------- direct calls
Algs == {"eg", "ucb", "ts"}

\* the rate columns of 1..MaxK arms with probabilities in [0,1]
Rates == UNION {[0..k-1 -> 0..Grid] : k \in 1..MaxK}

\* the environments built from a table of 1..MaxK rows: as many labels as
\* rates, every rate in [0,1]
Envs == {AdBandit(Labels(Cardinality(DOMAIN c)), c) : c \in Rates}

\* eps in [0,1]
EpsValues == {<<n, Grid>> : n \in 0..Grid}

\* a call alg(env, T) or epsilon_greedy(env, T, eps) about to execute
Called(e, a, horizon, epsilon, who) ==
    /\ env = e
    /\ alg = a
    /\ T = horizon
    /\ eps = epsilon
    /\ caller = who
    /\ pc = "entry"
    /\ t = 0
    /\ counts = None /\ values = None /\ alpha = None /\ beta = None
    /\ rewards = None /\ chosen = None
    /\ eg_r = None /\ ucb_r = None /\ results = None
    /\ probe = None

\* one algorithm called on a well-formed configuration
Init ==
    \E e \in Envs, a \in Algs, horizon \in 1..MaxT :
        \E epsilon \in (IF a = "eg" THEN EpsValues ELSE {DefaultEps}) :
            Called(e, a, horizon, epsilon, "direct") /\ twin = None

Next ==
    \/ Enter
    \/ epsilon_greedy_step
    \/ ucb1_step
    \/ thompson_sampling_step
    \/ Return

Spec == Init /\ [][Next]_vars

\* ------------------------------------------- calls on any configuration
\* 0..MaxK rates, each possibly outside [0,1]
AnyRates == UNION {[0..k-1 -> -1..Grid+1] : k \in 0..MaxK}

\* AdBandit(ads, ctrs) for any 0..MaxK labels and any such rates: __init__
\* compares neither the two lengths nor the rates with [0,1]
AnyEnvs == {AdBandit(Labels(n), c) : n \in 0..MaxK, c \in AnyRates}

AnyEps == {<<n, Grid>> : n \in -1..Grid+1}

InitAny ==
    \E e \in AnyEnvs, a \in Algs, horizon \in -1..MaxT :
        \E epsilon \in (IF a = "eg" THEN AnyEps ELSE {DefaultEps}) :
            Called(e, a, horizon, epsilon, "direct") /\ twin = None

SpecAny == InitAny /\ [][Next]_vars

\* --------------------------------------------------- direct calls of pull
ArmArgs == -(MaxK + 1)..MaxK + 1

\* the environments pull is called on: 0..MaxK labels, 1..MaxK rates in [0,1]
PullEnvs == {AdBandit(Labels(n), c) : n \in 0..MaxK, c \in Rates}

InitPull ==
    \E e \in PullEnvs, arm \in ArmArgs :
        /\ env = e
        /\ probe = [arm |-> arm, res |-> None]
        /\ pc = "pull"
        /\ alg = None /\ T = 0 /\ eps = DefaultEps /\ caller = "direct" /\ t = 0
        /\ counts = None /\ values = None /\ alpha = None /\ beta = None
        /\ rewards = None /\ chosen = None
        /\ eg_r = None /\ ucb_r = None /\ results = None /\ twin = None

\* lines 21-22: env.pull(probe.arm)
PullCall ==
    /\ pc = "pull"
    /\ \E u \in Draws : probe' = [probe EXCEPT !.res = pull(env, probe.arm, u)]
    /\ pc' = "pulled"
    /\ UNCHANGED <<env, alg, T, eps, t, counts, values, alpha, beta, rewards,
                   chosen, caller, eg_r, ucb_r, results, twin>>

NextPull == PullCall

SpecPull == InitPull /\ [][NextPull]_vars

\* --------------------------------------------------------- run_simulation
\* a reward trace as rationals
RatTrace(s) == [i \in 1..Len(s) |-> Rat(s[i])]

RECURSIVE SumTo(_, _)
SumTo(s, i) == IF i = 1 THEN s[1] ELSE RAdd(SumTo(s, i - 1), s[i])

\* np.cumsum
CumSum(s) == [i \in 1..Len(s) |-> SumTo(s, i)]

\* np.min instead of np.max
OptimalMin(e) ==
    Norm(CHOOSE m \in {e.ctrs[a] : a \in DOMAIN e.ctrs} :
             \A a \in DOMAIN e.ctrs : m <= e.ctrs[a], Grid)

\* line 122: np.max(env.expected_rewards()), as a rational
Optimal(e) == Norm(MaxOf(expected_rewards(e)), Grid)

\* np.cumsum(r - optimal)
RegretNegated(optimal, r) ==
    CumSum([i \in 1..Len(r) |-> RSub(Rat(r[i]), optimal)])

\* lines 123-125: np.cumsum(optimal - r)
Regret(optimal, r) == CumSum([i \in 1..Len(r) |-> RSub(optimal, Rat(r[i]))])

\* lines 112-118: the data is read, T is set and epsilon_greedy(env, T) is
\* called with the default eps.  SimT stands for the T = 5000 of line 115.
InitSim ==
    \E e \in Envs :
        Called(e, "eg", SimT, DefaultEps, "run_simulation") /\ twin = None

\* lines 118-119: eg_r is bound and ucb1(env, T) is called
SimCallUcb ==
    /\ caller = "run_simulation" /\ alg = "eg" /\ pc = "returned"
    /\ eg_r' = rewards
    /\ alg' = "ucb" /\ pc' = "entry" /\ t' = 0
    /\ counts' = None /\ values' = None /\ alpha' = None /\ beta' = None
    /\ rewards' = None /\ chosen' = None
    /\ UNCHANGED <<env, T, eps, caller, ucb_r, results, twin, probe>>

\* lines 119-120: ucb_r is bound and thompson_sampling(env, T) is called
SimCallTs ==
    /\ caller = "run_simulation" /\ alg = "ucb" /\ pc = "returned"
    /\ ucb_r' = rewards
    /\ alg' = "ts" /\ pc' = "entry" /\ t' = 0
    /\ counts' = None /\ values' = None /\ alpha' = None /\ beta' = None
    /\ rewards' = None /\ chosen' = None
    /\ UNCHANGED <<env, T, eps, caller, eg_r, results, twin, probe>>

\* lines 120-137: ts_r is bound (it is the rewards just returned), the regrets
\* and the cumulative clicks are computed and stored in self.results;
\* show_results only draws them
run_simulation ==
    /\ caller = "run_simulation" /\ alg = "ts" /\ pc = "returned"
    /\ LET ts_r == rewards
           optimal == Optimal(env)
       IN  results' = [eg |-> CumSum(RatTrace(eg_r)),
                       ucb |-> CumSum(RatTrace(ucb_r)),
                       ts |-> CumSum(RatTrace(ts_r)),
                       reg_eg |-> Regret(optimal, eg_r),
                       reg_ucb |-> Regret(optimal, ucb_r),
                       reg_ts |-> Regret(optimal, ts_r),
                       ads |-> env.ads,
                       expected |-> env.ctrs]
    /\ pc' = "shown"
    /\ UNCHANGED <<env, alg, T, eps, t, counts, values, alpha, beta, rewards,
                   chosen, caller, eg_r, ucb_r, twin, probe>>

NextSim ==
    \/ Enter
    \/ epsilon_greedy_step
    \/ ucb1_step
    \/ thompson_sampling_step
    \/ Return
    \/ SimCallUcb
    \/ SimCallTs
    \/ run_simulation

SpecSim == InitSim /\ [][NextSim]_vars

\* ------------------------------------------ two runs, two environments
\* The same algorithm run in step on two environments of the same K, with
\* the same draws of its own (the exploration coin, randint, beta) and
\* independent draws inside the two pulls.  The runs are followed for as long
\* as the two pulls have returned the same rewards.

\* the environments that differ from c in the rate of exactly one arm
OneArmOff(c) ==
    {d \in [DOMAIN c -> 0..Grid] :
        Cardinality({a \in DOMAIN c : d[a] # c[a]}) = 1}

InitPair ==
    \E e \in Envs, a \in Algs :
        \E d \in OneArmOff(e.ctrs) :
            /\ Called(e, a, PairT, DefaultEps, "pair")
            /\ twin = Frame(AdBandit(e.ads, d), None, None, None, None, None,
                            None)

SameRewards == rewards = twin.rewards

PairEnter ==
    /\ pc = "entry"
    /\ Becomes(Allocate(env, alg, T), 0)
    /\ twin' = Allocate(twin.env, alg, T)
    /\ UNCHANGED <<env, alg, T, eps, caller, eg_r, ucb_r, results, probe>>

PairEG ==
    /\ pc = "loop" /\ alg = "eg" /\ t < T /\ SameRewards
    /\ \E ue \in Draws, j \in 0..env.K-1, u1 \in Draws, u2 \in Draws :
            /\ Becomes(EGBody(Self, t, eps, ue, j, u1), t + 1)
            /\ twin' = EGBody(twin, t, eps, ue, j, u2)
    /\ UNCHANGED <<env, alg, T, eps, caller, eg_r, ucb_r, results, probe>>

PairUCB ==
    /\ pc = "loop" /\ alg = "ucb" /\ t < T /\ SameRewards
    /\ \E u1 \in Draws, u2 \in Draws :
            /\ Becomes(UCBBody(Self, t, u1), t + 1)
            /\ twin' = UCBBody(twin, t, u2)
    /\ UNCHANGED <<env, alg, T, eps, caller, eg_r, ucb_r, results, probe>>

PairTS ==
    /\ pc = "loop" /\ alg = "ts" /\ t < T /\ SameRewards
    /\ \E theta \in Thetas(env.K), u1 \in Draws, u2 \in Draws :
            /\ Becomes(TSBody(Self, t, theta, u1), t + 1)
            /\ twin' = TSBody(twin, t, theta, u2)
    /\ UNCHANGED <<env, alg, T, eps, caller, eg_r, ucb_r, results, probe>>

NextPair ==
    \/ PairEnter
    \/ PairEG
    \/ PairUCB
    \/ PairTS
    \/ Return

SpecPair == InitPair /\ [][NextPair]_vars

\* ----------------------------------------------------------------- claims
Arms == 0..env.K-1

Running == pc \in {"loop", "returned"}

\* the number of the first n iterations that pulled arm a
Pulls(ch, n, a) == Cardinality({i \in 1..n : ch[i] = a})

\* the sum of the rewards the first n iterations observed on arm a
RECURSIVE RewardOn(_, _, _, _)
RewardOn(rw, ch, n, a) ==
    IF n = 0 THEN 0
    ELSE RewardOn(rw, ch, n - 1, a) + (IF ch[n] = a THEN rw[n] ELSE 0)

\* f[0] + ... + f[k-1]
RECURSIVE SumArms(_, _)
SumArms(f, k) == IF k = 0 THEN 0 ELSE SumArms(f, k - 1) + f[k - 1]

\* the number of rewards 1 among the first n entries of a trace
Clicks(rw, n) == Cardinality({i \in 1..n : rw[i] = 1})

\* arm a holds the largest true rate
IsBest(a) == \A b \in DOMAIN env.ctrs : env.ctrs[b] <= env.ctrs[a]

\* C1: whichever algorithm returns, for K >= 1 and T >= 1, the trace it
\* returns has exactly T rewards and T arms, each reward is 0 or 1 and each
\* arm is in 0..K-1.
C1_TraceShape ==
    (pc = "returned" /\ env.K >= 1 /\ T >= 1) =>
        /\ Len(rewards) = T /\ Len(chosen) = T
        /\ \A i \in 1..T : rewards[i] \in {0, 1} /\ chosen[i] \in Arms

C1_Witness ==
    /\ pc = "returned" /\ alg = "ts" /\ env.K = MaxK /\ T = MaxT
    /\ \E i \in 1..T : rewards[i] = 1 /\ chosen[i] = MaxK - 1
    /\ \E i \in 1..T : rewards[i] = 0

\* the regret series reg and the clicks series cum of reward trace r obey
\* reg[i] = i * optimal - cum[i], cum[i] the clicks of the first i steps
RegretIdentity(reg, cum, r) ==
    /\ Len(reg) = T /\ Len(cum) = T
    /\ \A a \in DOMAIN env.ctrs : IsBest(a) =>
          \A i \in 1..T :
              /\ cum[i] = Rat(Clicks(r, i))
              /\ reg[i] = RSub(Norm(i * env.ctrs[a], Grid), cum[i])

\* C2: in the results of run_simulation, for each of the three runs and every
\* step i = 1..T, cumulative regret = i * optimal - cumulative reward, where
\* optimal is the largest true rate of any arm.
C2_RegretIdentity ==
    pc = "shown" =>
        /\ RegretIdentity(results.reg_eg, results.eg, eg_r)
        /\ RegretIdentity(results.reg_ucb, results.ucb, ucb_r)
        /\ RegretIdentity(results.reg_ts, results.ts, rewards)

C2_Witness ==
    /\ pc = "shown" /\ env.K = MaxK /\ T = SimT
    /\ env.ctrs[0] < env.ctrs[MaxK - 1] /\ env.ctrs[MaxK - 1] < Grid
    /\ eg_r[1] = 1 /\ eg_r[T] = 0
    /\ \E i \in 1..T : ucb_r[i] = 1
    /\ \E i \in 1..T : rewards[i] = 1

Malformed ==
    \/ T < 1
    \/ env.K < 1
    \/ alg = "eg" /\ (eps[1] < 0 \/ eps[1] > eps[2])
    \/ \E a \in DOMAIN env.ctrs : env.ctrs[a] < 0 \/ env.ctrs[a] > Grid

\* C3: on a malformed configuration (T < 1, K < 1, eps or a rate outside
\* [0,1]) no iteration of the loop is executed and no trace is returned.
C3_MalformedFailsFast ==
    Malformed => (t = 0 /\ pc # "returned")

\* C4: pull returns a reward only for an arm index in 0..K-1; any other index,
\* a negative one included, raises.
C4_PullRangeChecked ==
    (pc = "pulled" /\ probe.res.ok) =>
        (probe.arm \in Arms /\ probe.res.r \in {0, 1})

\* C5: two runs of one algorithm on environments with different rates, with
\* the same draws of the algorithm's own: when the rewards of all iterations
\* but the last were the same, the same arms were chosen in every iteration,
\* and when all rewards were the same the counts, estimates, alpha and beta
\* are the same too.
C5_OracleIndependence ==
    (caller = "pair" /\ Running) =>
        /\ (\A i \in 1..t-1 : rewards[i] = twin.rewards[i])
              => chosen = twin.chosen
        /\ SameRewards =>
              /\ counts = twin.counts /\ values = twin.values
              /\ alpha = twin.alpha /\ beta = twin.beta

C5_Witness ==
    /\ caller = "pair" /\ pc = "returned" /\ alg = "eg" /\ env.K = MaxK
    /\ SameRewards
    /\ ArgMaxInt(env.ctrs) # ArgMaxInt(twin.env.ctrs)
    /\ \E i \in 1..T : rewards[i] = 1
    /\ \E i \in 1..T : chosen[i] # 0

\* C6: ucb1 on a single arm chooses arm 0 in every iteration and holds
\* counts[0] = t + 1 after t iterations, so T + 1 when it returns.
C6_SingleArmUcb ==
    (alg = "ucb" /\ env.K = 1 /\ Running) =>
        /\ counts[0] = t + 1
        /\ \A i \in 1..t : chosen[i] = 0
        /\ pc = "returned" => counts[0] = T + 1

C6_Witness ==
    /\ alg = "ucb" /\ env.K = 1 /\ pc = "returned" /\ T = MaxT
    /\ rewards[1] = 0 /\ rewards[T] = 1

\* arm a is the lowest-index arm whose estimate is maximal
LowestBest(vals, a) ==
    /\ \A b \in DOMAIN vals : ~RLess(vals[a], vals[b])
    /\ \A b \in DOMAIN vals : b < a => RLess(vals[b], vals[a])

\* C7: epsilon_greedy with eps = 0 chooses in every iteration the
\* lowest-index arm whose estimate is maximal before that iteration, and arm 0
\* in the first one.
C7_GreedyWhenEpsZero ==
    [][(alg = "eg" /\ eps[1] = 0 /\ pc = "loop" /\ t' = t + 1) =>
          /\ LowestBest(values, chosen'[t'])
          /\ t = 0 => chosen'[1] = 0]_vars

C7_Witness ==
    /\ alg = "eg" /\ eps[1] = 0 /\ pc = "returned" /\ env.K = MaxK /\ T = MaxT
    /\ rewards[1] = 0 /\ rewards[2] = 1 /\ rewards[T] = 0

\* the cumulative regret series reg of reward trace r never falls
NonDecreasing(reg) ==
    \A i \in 1..Len(reg)-1 : ~RLess(reg[i + 1], reg[i])

\* C8 as claimed: each cumulative regret series of run_simulation is
\* non-decreasing from each step to the next.
C8_RegretNonDecreasing ==
    pc = "shown" =>
        /\ NonDecreasing(results.reg_eg)
        /\ NonDecreasing(results.reg_ucb)
        /\ NonDecreasing(results.reg_ts)

\* from step i to step i + 1 the series changes by optimal - r[i + 1], and it
\* falls exactly when that reward is above optimal
RegretSteps(reg, r) ==
    \A a \in DOMAIN env.ctrs : IsBest(a) =>
        \A i \in 1..Len(reg)-1 :
            /\ RSub(reg[i + 1], reg[i])
                  = RSub(Norm(env.ctrs[a], Grid), Rat(r[i + 1]))
            /\ RLess(reg[i + 1], reg[i])
                  <=> RLess(Norm(env.ctrs[a], Grid), Rat(r[i + 1]))

\* C8 amended: each cumulative regret series of run_simulation changes from
\* one step to the next by optimal minus the reward observed at that step; it
\* is non-decreasing across the steps whose reward does not exceed optimal
\* and falls across the others (a reward 1 when optimal < 1).
C8_RegretStepChange ==
    pc = "shown" =>
        /\ RegretSteps(results.reg_eg, eg_r)
        /\ RegretSteps(results.reg_ucb, ucb_r)
        /\ RegretSteps(results.reg_ts, rewards)

C8_Witness ==
    /\ pc = "shown" /\ T = SimT /\ env.K = MaxK
    /\ \E a \in DOMAIN env.ctrs : IsBest(a) /\ env.ctrs[a] > 0 /\ env.ctrs[a] < Grid
    /\ RLess(results.reg_ucb[2], results.reg_ucb[1])
    /\ RLess(results.reg_eg[1], results.reg_eg[2])

\* the counts and estimates of epsilon_greedy after t iterations
EGState ==
    (alg = "eg" /\ Running) =>
        /\ \A a \in Arms :
              /\ counts[a] = Pulls(chosen, t, a)
              /\ counts[a] = 0 => values[a] = Rat(0)
              /\ values[a][1] * counts[a]
                    = RewardOn(rewards, chosen, t, a) * values[a][2]
        /\ SumArms(counts, env.K) = t

\* C9: in epsilon_greedy, after any number t of iterations, counts[a] is the
\* number of pulls of arm a, the counts sum to t, values[a] is 0 for an arm
\* never pulled and the mean of the rewards observed on a otherwise; an
\* iteration changes the count and the estimate of the pulled arm only.
C9_EpsilonGreedyMeans ==
    [][/\ EGState'
       /\ (alg = "eg" /\ t' = t + 1) =>
             \A a \in Arms : a # chosen'[t'] =>
                 counts'[a] = counts[a] /\ values'[a] = values[a]]_vars

C9_Witness ==
    /\ alg = "eg" /\ pc = "returned" /\ T = MaxT /\ env.K = MaxK
    /\ counts[0] = 2 /\ values[0] = <<1, 2>>
    /\ counts[MaxK - 1] >= 1

\* C10: in ucb1, after any number t of iterations, counts[a] is 1 + the
\* number of pulls of arm a, the counts sum to K + t, values[a] * counts[a] is
\* the sum of the rewards observed on a, and values[a] is below the mean of
\* those rewards once one of them is 1.
C10_UcbBiasedMeans ==
    (alg = "ucb" /\ Running) =>
        /\ \A a \in Arms :
              /\ counts[a] = 1 + Pulls(chosen, t, a)
              /\ values[a][1] * counts[a]
                    = RewardOn(rewards, chosen, t, a) * values[a][2]
              /\ RewardOn(rewards, chosen, t, a) >= 1 =>
                    RLess(values[a],
                          Norm(RewardOn(rewards, chosen, t, a),
                               Pulls(chosen, t, a)))
        /\ SumArms(counts, env.K) = env.K + t

C10_Witness ==
    /\ alg = "ucb" /\ pc = "returned" /\ T = MaxT /\ env.K = MaxK
    /\ \E a \in Arms : counts[a] = 3 /\ values[a] = <<1, 3>>
    /\ \A a \in Arms : counts[a] >= 2

====
